---- MODULE Spec2Model ----
(***************************************************************************)
(* Model of scripts/replace_app_icon.py: one run of main(), which creates  *)
(* the output directory, loads the source image, crops it to a centred     *)
(* square, makes its light background transparent, and writes one PNG per  *)
(* filename of the SIZES table, resizing once per distinct pixel size.     *)
(*                                                                         *)
(* Spec   is the run of main() on image geometry (sizes, crop box, cache,  *)
(*        files on disk, printed paths), with the failures the run can     *)
(*        meet: directory not creatable, source unreadable, write failing. *)
(* SpecPx is the pixel pass of the same pipeline (convert("RGB"), then     *)
(*        make_background_transparent) on bounded pixel data.              *)
(***************************************************************************)
EXTENDS Integers, Sequences, FiniteSets, TLC

VARIABLES
    src,        \* the file at SRC: missing, undecodable, or an image
    dirExists,  \* whether OUT_DIR exists
    disk,       \* the file at each output path of OUT_DIR
    dir0,       \* dirExists before the run (history)
    disk0,      \* disk before the run (history)
    pc,         \* position of main()
    err,        \* the uncaught error that ended the run, or "none"
    im,         \* local im
    seen_size,  \* local seen_size: pixel size -> raster
    resized,    \* local resized
    i,          \* index of the current SIZES entry (outer for)
    j,          \* index of the current filename (inner for)
    nextId,     \* identity of the next raster object created by resize
    resizeLog,  \* entry indices at which resize was called, in order (history)
    written,    \* save calls that returned, in order (history)
    printed,    \* printed paths, in order (stdout)
    failedAt,   \* 0, or the flattened position of the save that raised (history)
    pxsrc,      \* pixel pass: the source's pixel data
    pxdata,     \* pixel pass: the current pixel data
    pxpc        \* pixel pass: position

mainvars == <<src, dirExists, disk, dir0, disk0, pc, err, im, seen_size, resized,
              i, j, nextId, resizeLog, written, printed, failedAt>>
pxvars == <<pxsrc, pxdata, pxpc>>
vars == <<mainvars, pxvars>>

(***************************************************************************)
(* Bounds of the model                                                     *)
(***************************************************************************)
MaxDim == 4
MaxPix == 2

\* source widths and heights: the small ones, and the 2000x1500 example
Dims == (1..MaxDim) \cup {1500, 2000}
\* channel values around the threshold, and the extremes
ChanVals == {234, 235, 255}
AlphaVals == {0, 255}

(***************************************************************************)
(* Program constants                                                       *)
(***************************************************************************)
OUT_DIR == "Shared/Assets.xcassets/AppIcon.appiconset"

SIZES == <<
    [size |-> 20,   filenames |-> <<"icon-20.png">>],
    [size |-> 40,   filenames |-> <<"icon-20@2x.png", "icon-20@2x-ipad.png">>],
    [size |-> 60,   filenames |-> <<"icon-20@3x.png">>],
    [size |-> 29,   filenames |-> <<"icon-29.png">>],
    [size |-> 58,   filenames |-> <<"icon-29@2x.png", "icon-29@2x-ipad.png">>],
    [size |-> 87,   filenames |-> <<"icon-29@3x.png">>],
    [size |-> 40,   filenames |-> <<"icon-40.png">>],
    [size |-> 80,   filenames |-> <<"icon-40@2x.png", "icon-40@2x-ipad.png">>],
    [size |-> 120,  filenames |-> <<"icon-40@3x.png">>],
    [size |-> 120,  filenames |-> <<"icon-60@2x.png">>],
    [size |-> 180,  filenames |-> <<"icon-60@3x.png">>],
    [size |-> 76,   filenames |-> <<"icon-76.png">>],
    [size |-> 152,  filenames |-> <<"icon-76@2x.png">>],
    [size |-> 167,  filenames |-> <<"icon-83.5@2x.png">>],
    [size |-> 1024, filenames |-> <<"icon-1024.png">>],
    [size |-> 16,   filenames |-> <<"icon-mac-16.png">>],
    [size |-> 32,   filenames |-> <<"icon-mac-16@2x.png", "icon-mac-32.png">>],
    [size |-> 64,   filenames |-> <<"icon-mac-32@2x.png">>],
    [size |-> 128,  filenames |-> <<"icon-mac-128.png">>],
    [size |-> 256,  filenames |-> <<"icon-mac-128@2x.png", "icon-mac-256.png">>],
    [size |-> 512,  filenames |-> <<"icon-mac-256@2x.png", "icon-mac-512.png">>],
    [size |-> 1024, filenames |-> <<"icon-mac-512@2x.png">> ] >>

\* threshold: int = 235
Threshold == 235

(***************************************************************************)
(* Values                                                                  *)
(***************************************************************************)
Names == UNION {{SIZES[e].filenames[n] : n \in 1..Len(SIZES[e].filenames)} : e \in 1..Len(SIZES)}

\* out_dir / name
OutPath(name) == <<OUT_DIR, name>>
Paths == {OutPath(n) : n \in Names}

Absent == [kind |-> "absent"]
OldFile == [kind |-> "old"]
Partial == [kind |-> "partial"]
NoImage == [kind |-> "none"]
Missing == [kind |-> "missing"]
Undecodable == [kind |-> "undecodable"]

SourceImages == {[kind |-> "image", mode |-> m, w |-> w, h |-> h] :
                    m \in {"RGB", "RGBA"}, w \in Dims, h \in Dims}

\* what the output directory may hold before the run
InitialDisks == {[p \in Paths |-> Absent],
                 [p \in Paths |-> OldFile],
                 [p \in Paths |-> IF p[2] \in {"icon-20@2x.png", "icon-1024.png"}
                                  THEN OldFile ELSE Absent]}

Min(a, b) == IF a < b THEN a ELSE b

(***************************************************************************)
(* Image operations (Pillow calls made by main)                            *)
(***************************************************************************)
\* Image.open(SRC): the decoded source, its whole area
Open(file) == [kind |-> "image", mode |-> file.mode, w |-> file.w, h |-> file.h,
               box |-> <<0, 0, file.w, file.h>>, crops |-> 0, keyed |-> FALSE]

\* img.convert(mode)
Convert(img, mode) == [img EXCEPT !.mode = mode]

\* faulty variant of CropBox: the offsets round up instead of down
CropBoxCeil(w, h) ==
    LET s == Min(w, h)
        left == (w - s + 1) \div 2
        top == (h - s + 1) \div 2
    IN  <<left, top, left + s, top + s>>

\* s = min(w, h); left = (w - s) // 2; top = (h - s) // 2;
\* the box (left, top, left + s, top + s)
CropBox(w, h) ==
    LET s == Min(w, h)
        left == (w - s) \div 2
        top == (h - s) \div 2
    IN  <<left, top, left + s, top + s>>

\* im.crop(box): the region of the image inside box
Crop(img, b) == [img EXCEPT !.w = b[3] - b[1], !.h = b[4] - b[2],
                            !.box = <<img.box[1] + b[1], img.box[2] + b[2],
                                      img.box[1] + b[3], img.box[2] + b[4]>>,
                            !.crops = img.crops + 1]

\* make_background_transparent(im) on the image as a whole: RGBA, background keyed out
Keyed(img) == [Convert(img, "RGBA") EXCEPT !.keyed = TRUE]

\* faulty variant of Resize: thumbnail semantics, which never enlarge
ResizeThumbnail(img, size) == [mode |-> img.mode, w |-> Min(size, img.w),
                               h |-> Min(size, img.h), of |-> img]

\* im.resize((size, size), LANCZOS): a size x size raster computed from img
Resize(img, size) == [mode |-> img.mode, w |-> size, h |-> size, of |-> img]

\* raster.save(path, "PNG"): the bytes of the file, decided by the raster's pixels
Encode(raster) == [kind |-> "png", mode |-> raster.pix.mode, w |-> raster.pix.w,
                   h |-> raster.pix.h, of |-> raster.pix.of]

\* faulty variant of NotSeen: the dedupe test never hits
NotSeenAlways(size, cache) == TRUE

\* size not in seen_size
NotSeen(size, cache) == size \notin DOMAIN cache

\* seen_size[size] = resized
Store(cache, size, raster) == (size :> raster) @@ cache

\* faulty variant of SaveSource: saves the local resized, stale on a dedupe hit
SaveSourceLast(cache, last, size) == last

\* seen_size[size], the raster that line 70 saves
SaveSource(cache, last, size) == cache[size]

\* faulty variant of NameAt: every write of an entry goes to its first filename
NameFirst(e, k) == SIZES[e].filenames[1]

\* faulty variant of NameAt: the filenames of an entry are taken last to first
NameAtReversed(e, k) == SIZES[e].filenames[Len(SIZES[e].filenames) + 1 - k]

\* for name in filenames: the j-th filename of entry e
NameAt(e, k) == SIZES[e].filenames[k]

(***************************************************************************)
(* Pixel data (img.getdata(): the pixels in order, one tuple of bands each) *)
(***************************************************************************)
RGBPixels == {<<r, g, b>> : r \in ChanVals, g \in ChanVals, b \in ChanVals}
RGBAPixels == {<<r, g, b, a>> : r \in ChanVals, g \in ChanVals, b \in ChanVals,
                                a \in AlphaVals}

\* convert("RGB") of one pixel: the alpha band, if any, is dropped
PixelRGB(p) == <<p[1], p[2], p[3]>>

\* convert("RGBA") of one pixel: an image without alpha becomes fully opaque
PixelRGBA(p) == IF Len(p) = 4 THEN p ELSE <<p[1], p[2], p[3], 255>>

\* Image.open(SRC).convert("RGB") on the pixel data
ConvertRGB(data) == [k \in 1..Len(data) |-> PixelRGB(data[k])]

\* faulty variant of KeyPixel: the threshold itself is excluded
KeyPixelStrict(item, threshold) ==
    IF item[1] > threshold /\ item[2] > threshold /\ item[3] > threshold
    THEN <<item[1], item[2], item[3], 0>>
    ELSE item

\* r, g, b, a = item; (r, g, b, 0) if all three reach the threshold, else item
KeyPixel(item, threshold) ==
    IF item[1] >= threshold /\ item[2] >= threshold /\ item[3] >= threshold
    THEN <<item[1], item[2], item[3], 0>>
    ELSE item

make_background_transparent(data, threshold) ==
    LET rgba == [k \in 1..Len(data) |-> PixelRGBA(data[k])]
    IN  [k \in 1..Len(rgba) |-> KeyPixel(rgba[k], threshold)]

(***************************************************************************)
(* main()                                                                  *)
(***************************************************************************)
Crashed(e) == pc' = "crashed" /\ err' = e

\* faulty variant of Mkdir: the directory is not created
MkdirSkipped ==
    /\ pc = "mkdir"
    /\ pc' = "open"
    /\ UNCHANGED <<src, dirExists, disk, dir0, disk0, err, im, seen_size, resized, i, j,
                   nextId, resizeLog, written, printed, failedAt, pxvars>>

\* out_dir.mkdir(parents=True, exist_ok=True)
Mkdir ==
    /\ pc = "mkdir"
    /\ dirExists' = TRUE
    /\ pc' = "open"
    /\ UNCHANGED <<src, disk, dir0, disk0, err, im, seen_size, resized, i, j, nextId,
                   resizeLog, written, printed, failedAt, pxvars>>

\* mkdir raises: the directory is absent and cannot be created
MkdirFail ==
    /\ pc = "mkdir"
    /\ ~dirExists
    /\ Crashed("mkdir")
    /\ UNCHANGED <<src, dirExists, disk, dir0, disk0, im, seen_size, resized, i, j,
                   nextId, resizeLog, written, printed, failedAt, pxvars>>

\* im = Image.open(SRC).convert("RGB")
Load ==
    /\ pc = "open"
    /\ src.kind = "image"
    /\ im' = Convert(Open(src), "RGB")
    /\ pc' = "crop"
    /\ UNCHANGED <<src, dirExists, disk, dir0, disk0, err, seen_size, resized, i, j,
                   nextId, resizeLog, written, printed, failedAt, pxvars>>

\* faulty variant of LoadFail: the error is caught and a blank image stands in
LoadFallback ==
    /\ pc = "open"
    /\ src.kind # "image"
    /\ im' = Convert(Open([mode |-> "RGB", w |-> 1, h |-> 1]), "RGB")
    /\ pc' = "crop"
    /\ UNCHANGED <<src, dirExists, disk, dir0, disk0, err, seen_size, resized, i, j,
                   nextId, resizeLog, written, printed, failedAt, pxvars>>

\* Image.open raises: FileNotFoundError or UnidentifiedImageError
LoadFail ==
    /\ pc = "open"
    /\ src.kind # "image"
    /\ Crashed(src.kind)
    /\ UNCHANGED <<src, dirExists, disk, dir0, disk0, im, seen_size, resized, i, j,
                   nextId, resizeLog, written, printed, failedAt, pxvars>>

\* w, h = im.size; if w != h: im = im.crop(...)
SquareCrop ==
    /\ pc = "crop"
    /\ im' = IF im.w # im.h THEN Crop(im, CropBox(im.w, im.h)) ELSE im
    /\ pc' = "transparent"
    /\ UNCHANGED <<src, dirExists, disk, dir0, disk0, err, seen_size, resized, i, j,
                   nextId, resizeLog, written, printed, failedAt, pxvars>>

\* im = make_background_transparent(im); seen_size = {}
Transparent ==
    /\ pc = "transparent"
    /\ im' = Keyed(im)
    /\ seen_size' = <<>>
    /\ i' = 1
    /\ pc' = "for"
    /\ UNCHANGED <<src, dirExists, disk, dir0, disk0, err, resized, j, nextId,
                   resizeLog, written, printed, failedAt, pxvars>>

\* for size, filenames in SIZES: if size not in seen_size: resize and cache
ResizeStep ==
    /\ pc = "for"
    /\ i <= Len(SIZES)
    /\ NotSeen(SIZES[i].size, seen_size)
    /\ LET r == [id |-> nextId, pix |-> Resize(im, SIZES[i].size)]
       IN  /\ resized' = r
           /\ seen_size' = Store(seen_size, SIZES[i].size, r)
    /\ nextId' = nextId + 1
    /\ resizeLog' = Append(resizeLog, i)
    /\ j' = 1
    /\ pc' = "names"
    /\ UNCHANGED <<src, dirExists, disk, dir0, disk0, err, im, i, written, printed,
                   failedAt, pxvars>>

\* for size, filenames in SIZES: the size is in seen_size already
DedupeHit ==
    /\ pc = "for"
    /\ i <= Len(SIZES)
    /\ ~NotSeen(SIZES[i].size, seen_size)
    /\ j' = 1
    /\ pc' = "names"
    /\ UNCHANGED <<src, dirExists, disk, dir0, disk0, err, im, seen_size, resized, i,
                   nextId, resizeLog, written, printed, failedAt, pxvars>>

\* out_path = out_dir / name; seen_size[size].save(out_path, "PNG")
Save ==
    /\ pc = "names"
    /\ j <= Len(SIZES[i].filenames)
    /\ LET out_path == OutPath(NameAt(i, j))
           raster == SaveSource(seen_size, resized, SIZES[i].size)
       IN  /\ disk' = [disk EXCEPT ![out_path] = Encode(raster)]
           /\ written' = Append(written, [path |-> out_path, raster |-> raster.id,
                                          entry |-> i])
    /\ pc' = "print"
    /\ UNCHANGED <<src, dirExists, dir0, disk0, err, im, seen_size, resized, i, j, nextId,
                   resizeLog, printed, failedAt, pxvars>>

\* faulty variant of SaveFail: the error is caught and the loop goes on
SaveFailSwallowed ==
    /\ pc = "names"
    /\ j <= Len(SIZES[i].filenames)
    /\ LET out_path == OutPath(NameAt(i, j))
       IN  \E left \in {disk[out_path], Partial} :
               disk' = [disk EXCEPT ![out_path] = left]
    /\ failedAt' = Len(written) + 1
    /\ j' = j + 1
    /\ UNCHANGED <<src, dirExists, dir0, disk0, pc, err, im, seen_size, resized, i,
                   nextId, resizeLog, written, printed, pxvars>>

\* save raises (disk full, not writable): the file is left as it was or
\* partly written, and the error ends the run
SaveFail ==
    /\ pc = "names"
    /\ j <= Len(SIZES[i].filenames)
    /\ LET out_path == OutPath(NameAt(i, j))
       IN  \E left \in {disk[out_path], Partial} :
               disk' = [disk EXCEPT ![out_path] = left]
    /\ failedAt' = Len(written) + 1
    /\ Crashed("save")
    /\ UNCHANGED <<src, dirExists, dir0, disk0, im, seen_size, resized, i, j, nextId,
                   resizeLog, written, printed, pxvars>>

\* print(out_path)
PrintPath ==
    /\ pc = "print"
    /\ printed' = Append(printed, OutPath(NameAt(i, j)))
    /\ j' = j + 1
    /\ pc' = "names"
    /\ UNCHANGED <<src, dirExists, disk, dir0, disk0, err, im, seen_size, resized, i,
                   nextId, resizeLog, written, failedAt, pxvars>>

\* the inner for is exhausted: next entry
NextEntry ==
    /\ pc = "names"
    /\ j > Len(SIZES[i].filenames)
    /\ i' = i + 1
    /\ pc' = "for"
    /\ UNCHANGED <<src, dirExists, disk, dir0, disk0, err, im, seen_size, resized, j,
                   nextId, resizeLog, written, printed, failedAt, pxvars>>

\* the outer for is exhausted: main returns
Finish ==
    /\ pc = "for"
    /\ i > Len(SIZES)
    /\ pc' = "done"
    /\ UNCHANGED <<src, dirExists, disk, dir0, disk0, err, im, seen_size, resized, i, j,
                   nextId, resizeLog, written, printed, failedAt, pxvars>>

PxIdle == pxsrc = <<>> /\ pxdata = <<>> /\ pxpc = "idle"

Init ==
    /\ src \in SourceImages \cup {Missing, Undecodable}
    /\ dirExists \in BOOLEAN
    /\ disk \in (IF dirExists THEN InitialDisks ELSE {[p \in Paths |-> Absent]})
    /\ dir0 = dirExists
    /\ disk0 = disk
    /\ pc = "mkdir"
    /\ err = "none"
    /\ im = NoImage
    /\ seen_size = <<>>
    /\ resized = NoImage
    /\ i = 0
    /\ j = 0
    /\ nextId = 1
    /\ resizeLog = <<>>
    /\ written = <<>>
    /\ printed = <<>>
    /\ failedAt = 0
    /\ PxIdle

Next ==
    \/ Mkdir
    \/ MkdirFail
    \/ Load
    \/ LoadFail
    \/ SquareCrop
    \/ Transparent
    \/ ResizeStep
    \/ DedupeHit
    \/ Save
    \/ SaveFail
    \/ PrintPath
    \/ NextEntry
    \/ Finish

Spec == Init /\ [][Next]_vars

(***************************************************************************)
(* The pixel pass of main(): lines 54 and 61 on pixel data                 *)
(***************************************************************************)
\* im = Image.open(SRC).convert("RGB")
PxLoad ==
    /\ pxpc = "open"
    /\ pxdata' = ConvertRGB(pxsrc)
    /\ pxpc' = "transparent"
    /\ UNCHANGED <<pxsrc, mainvars>>

\* im = make_background_transparent(im)
PxTransparent ==
    /\ pxpc = "transparent"
    /\ pxdata' = make_background_transparent(pxdata, Threshold)
    /\ pxpc' = "done"
    /\ UNCHANGED <<pxsrc, mainvars>>

MainIdle ==
    /\ src = Missing
    /\ dirExists = TRUE
    /\ disk = [p \in Paths |-> Absent]
    /\ dir0 = dirExists
    /\ disk0 = disk
    /\ pc = "idle"
    /\ err = "none"
    /\ im = NoImage
    /\ seen_size = <<>>
    /\ resized = NoImage
    /\ i = 0
    /\ j = 0
    /\ nextId = 1
    /\ resizeLog = <<>>
    /\ written = <<>>
    /\ printed = <<>>
    /\ failedAt = 0

InitPx ==
    /\ MainIdle
    /\ \E n \in 1..MaxPix : pxsrc \in [1..n -> RGBPixels] \cup [1..n -> RGBAPixels]
    /\ pxdata = pxsrc
    /\ pxpc = "open"

NextPx ==
    \/ PxLoad
    \/ PxTransparent

SpecPx == InitPx /\ [][NextPx]_vars

(***************************************************************************)
(* Properties                                                              *)
(***************************************************************************)
RECURSIVE FlatFrom(_)
\* the filenames of SIZES from entry e on, in declaration order, each with
\* its entry and declared size
FlatFrom(e) ==
    IF e > Len(SIZES) THEN <<>>
    ELSE [n \in 1..Len(SIZES[e].filenames) |->
             [entry |-> e, name |-> SIZES[e].filenames[n], size |-> SIZES[e].size]]
         \o FlatFrom(e + 1)

Flat == FlatFrom(1)

Max(a, b) == IF a > b THEN a ELSE b

\* the distinct sizes declared by the entries 1..e
SizesUpTo(e) == {SIZES[k].size : k \in 1..e}

\* entry e is the first entry that declares its size
FirstOfSize(e) == \A k \in 1..(e - 1) : SIZES[k].size # SIZES[e].size

SourceUnreadable == src.kind \in {"missing", "undecodable"}

\* C1: after a run that completes, every filename of every SIZES entry exists
\* in the output directory and holds a raster of the entry's size x size.
C1_EveryFileHasDeclaredSize ==
    pc = "done" =>
        \A e \in 1..Len(SIZES) : \A n \in 1..Len(SIZES[e].filenames) :
            LET f == disk[OutPath(SIZES[e].filenames[n])]
            IN  /\ dirExists
                /\ f.kind = "png"
                /\ f.w = SIZES[e].size
                /\ f.h = SIZES[e].size

C1_Witness ==
    /\ pc = "done"
    /\ disk0[OutPath("icon-1024.png")] = OldFile
    /\ disk[OutPath("icon-40.png")].w = 40
    /\ disk[OutPath("icon-mac-512@2x.png")].w = 1024

\* C2 as stated: a completed run writes exactly 22 distinct files, in 22 writes.
C2_TwentyTwoFiles ==
    pc = "done" =>
        /\ Cardinality({written[k].path : k \in 1..Len(written)}) = 22
        /\ Len(written) = 22

\* C2 amended: a completed run writes exactly 28 distinct files, in 28
\* writes: the 22 entries of SIZES list 28 distinct filenames.
C2_TwentyEightFiles ==
    /\ Len(SIZES) = 22
    /\ pc = "done" =>
        /\ Cardinality({written[k].path : k \in 1..Len(written)}) = 28
        /\ Len(written) = 28
        /\ Cardinality({q \in Paths : disk[q].kind = "png"}) = 28

C2_Witness ==
    /\ pc = "done"
    /\ Len(written) = 28
    /\ \A q \in Paths : disk0[q] = Absent

\* C3: when the source is missing or undecodable the run ends with an error
\* and the files of the output directory are those of before the run, none
\* created or modified, and no path is printed.
C3_UnreadableSourceLeavesFiles ==
    SourceUnreadable =>
        /\ pc \in {"mkdir", "open", "crashed"}
        /\ disk = disk0
        /\ written = <<>>
        /\ printed = <<>>

C3_Witness ==
    /\ pc = "crashed"
    /\ err = "undecodable"
    /\ disk0[OutPath("icon-1024.png")] = OldFile
    /\ disk0[OutPath("icon-20.png")] = Absent

\* C4 as stated: when the source is unreadable the run has no filesystem
\* effect: an output directory absent before the run is absent after it.
C4_NoDirectoryCreated ==
    (pc = "crashed" /\ err \in {"missing", "undecodable"} /\ ~dir0) => ~dirExists

\* C4 amended: when the source is unreadable the run ends at the load, after
\* the output directory was created: the directory exists, an absent one was
\* created empty, and no file in it was created, modified or printed.
C4_DirectoryCreatedBeforeLoad ==
    (pc = "crashed" /\ err \in {"missing", "undecodable"}) =>
        /\ SourceUnreadable
        /\ dirExists
        /\ ~dir0 => \A q \in Paths : disk[q] = Absent
        /\ disk = disk0
        /\ printed = <<>>

C4_Witness ==
    /\ pc = "crashed"
    /\ err = "missing"
    /\ ~dir0
    /\ dirExists

\* C5: a source of width w and height h with w # h is cropped once to a
\* square of side min(w, h), offset by (max(w, h) - min(w, h)) // 2 on the longer axis
\* and by 0 on the shorter one; a square source is not cropped and keeps its size.
C5_CentredSquareCrop ==
    (im.kind = "image" /\ pc # "crop") =>
        LET w == src.w
            h == src.h
            side == Min(w, h)
            off == (Max(w, h) - Min(w, h)) \div 2
        IN  IF w # h
            THEN /\ im.crops = 1
                 /\ im.w = side
                 /\ im.h = side
                 /\ im.box = IF w > h THEN <<off, 0, off + side, side>>
                                      ELSE <<0, off, side, off + side>>
            ELSE /\ im.crops = 0
                 /\ im.w = w
                 /\ im.h = h
                 /\ im.box = <<0, 0, w, h>>

C5_Witness ==
    /\ pc = "transparent"
    /\ src.w = 2000
    /\ src.h = 1500
    /\ im.box = <<250, 0, 1750, 1500>>
    /\ im.w = 1500

\* C6: after convert("RGB") and make_background_transparent, the pixel data
\* has the source's length and order, every pixel keeps its R, G, B, and its
\* alpha is 0 if R, G and B are all >= 235 and 255 otherwise, whatever the
\* other pixels and the source's own alpha.
C6_ThresholdTransparency ==
    pxpc = "done" =>
        /\ Len(pxdata) = Len(pxsrc)
        /\ \A k \in 1..Len(pxsrc) :
            LET p == pxsrc[k]
                q == pxdata[k]
            IN  /\ Len(q) = 4
                /\ q[1] = p[1] /\ q[2] = p[2] /\ q[3] = p[3]
                /\ (p[1] >= 235 /\ p[2] >= 235 /\ p[3] >= 235) => q[4] = 0
                /\ (p[1] < 235 \/ p[2] < 235 \/ p[3] < 235) => q[4] = 255

C6_Witness ==
    /\ pxpc = "done"
    /\ pxsrc = << <<235, 235, 235, 255>>, <<234, 255, 255, 0>> >>
    /\ pxdata = << <<235, 235, 235, 0>>, <<234, 255, 255, 255>> >>

\* the state part of C7: resize was called once for the first entry of each
\* size met so far and for no other, the cache holds these sizes, each with the
\* raster made for it, and a completed run has written every filename
C7_Cache ==
    /\ \A a, b \in 1..Len(resizeLog) :
           /\ FirstOfSize(resizeLog[a])
           /\ a < b => resizeLog[a] < resizeLog[b]
    /\ DOMAIN seen_size = {SIZES[resizeLog[a]].size : a \in 1..Len(resizeLog)}
    /\ \A a \in 1..Len(resizeLog) :
           LET r == seen_size[SIZES[resizeLog[a]].size]
           IN  r.id = a /\ r.pix.w = SIZES[resizeLog[a]].size
    /\ pc \in {"names", "print"} => DOMAIN seen_size = SizesUpTo(i)
    /\ pc = "done" =>
           /\ DOMAIN seen_size = SizesUpTo(Len(SIZES))
           /\ Cardinality(DOMAIN seen_size) = Len(resizeLog)
           /\ Len(written) = Len(Flat)

\* the step part of C7: a cache entry is never replaced or removed
C7_Keep ==
    \A s \in DOMAIN seen_size : s \in DOMAIN seen_size' /\ seen_size'[s] = seen_size[s]

\* C7: resize runs exactly once per distinct size of SIZES, at the first
\* entry declaring it; later entries of that size resize nothing and still
\* write their filenames; at the end the cache holds one entry per distinct
\* size, and an entry once inserted is never replaced or removed.
C7_ResizeOncePerSize == []C7_Cache /\ [][C7_Keep]_vars

C7_Witness ==
    /\ pc = "done"
    /\ Len(resizeLog) = 19
    /\ Cardinality(DOMAIN seen_size) = 19
    /\ written[9].path = OutPath("icon-40.png")
    /\ written[9].raster = seen_size[40].id

\* C8: after a run that completes, two filenames of the same declared size,
\* in one entry or in two, hold the same bytes, written from the one cached
\* raster of that size.
C8_SameSizeSameContent ==
    pc = "done" =>
        \A a, b \in 1..Len(Flat) :
            Flat[a].size = Flat[b].size =>
                /\ disk[OutPath(Flat[a].name)] = disk[OutPath(Flat[b].name)]
                /\ disk[OutPath(Flat[a].name)] = Encode(seen_size[Flat[a].size])
                /\ written[a].raster = written[b].raster
                /\ written[a].raster = seen_size[Flat[a].size].id

C8_Witness ==
    /\ pc = "done"
    /\ disk[OutPath("icon-20@2x.png")] = disk[OutPath("icon-20@2x-ipad.png")]
    /\ disk[OutPath("icon-20@2x.png")] = disk[OutPath("icon-40.png")]
    /\ disk[OutPath("icon-40.png")] # disk[OutPath("icon-29@3x.png")]

\* C9: the files written so far are a prefix of the filenames of SIZES in
\* declaration order, and the printed paths are a prefix of the written
\* files, at most one behind.
C9_WriteThenPrintInOrder ==
    /\ Len(written) <= Len(Flat)
    /\ \A k \in 1..Len(written) :
           /\ written[k].path = OutPath(Flat[k].name)
           /\ written[k].entry = Flat[k].entry
    /\ Len(printed) <= Len(written)
    /\ Len(written) <= Len(printed) + 1
    /\ \A k \in 1..Len(printed) : printed[k] = written[k].path

C9_Witness ==
    /\ pc = "print"
    /\ Len(written) = 3
    /\ Len(printed) = 2
    /\ written[3].path = OutPath("icon-20@2x-ipad.png")
    /\ printed[2] = OutPath("icon-20@2x.png")

\* C10: when the write of the k-th filename fails the run ends there with
\* the error: k-1 files were written and printed and no more, each of them
\* holds what this run wrote, the failing path is not printed, and no resize
\* happened beyond those of the entries up to the failing one.
C10_WriteFailureStopsRun ==
    failedAt # 0 =>
        /\ pc = "crashed" /\ err = "save"
        /\ failedAt \in 1..Len(Flat)
        /\ Len(written) = failedAt - 1
        /\ Len(printed) = failedAt - 1
        /\ \A k \in 1..(failedAt - 1) :
               /\ disk[OutPath(Flat[k].name)] = Encode(seen_size[Flat[k].size])
               /\ disk[OutPath(Flat[k].name)].w = Flat[k].size
               /\ printed[k] = OutPath(Flat[k].name)
        /\ \A k \in 1..Len(printed) : printed[k] # OutPath(Flat[failedAt].name)
        /\ \A k \in (failedAt + 1)..Len(Flat) :
               disk[OutPath(Flat[k].name)] = disk0[OutPath(Flat[k].name)]
        /\ DOMAIN seen_size = SizesUpTo(Flat[failedAt].entry)
        /\ Len(resizeLog) = Cardinality(SizesUpTo(Flat[failedAt].entry))

C10_Witness ==
    /\ failedAt = 3
    /\ pc = "crashed"
    /\ disk[OutPath("icon-20.png")].kind = "png"
    /\ disk[OutPath("icon-20@2x.png")].kind = "png"
    /\ disk[OutPath("icon-20@2x-ipad.png")] = Partial
    /\ disk[OutPath("icon-20@3x.png")] = Absent

====
